---- MODULE Spec2Model ----
(***************************************************************************)
(* Model of tokio/src/util/wake.rs: wakers built by hand from an Arc of a  *)
(* Wake target.  A handle is the pair (data pointer, vtable) of a RawWaker *)
(* and the only shared mutable state is the Arc's strong counter.          *)
(*                                                                         *)
(* Every operation in progress is its own thread: a handle that has been   *)
(* passed to wake sits in "inwake" while the target's wake runs, a stake   *)
(* whose decrement read 1 sits in "freeing" until the deallocation runs,   *)
(* and wake_by_ref calls in progress are counted per handle.  All other    *)
(* steps of other handles interleave freely with these.                    *)
(*                                                                         *)
(* The module also holds tokio-util/src/codec/framed_write.rs, the frame   *)
(* writer driven by such wakers: its write buffer and its backpressure     *)
(* boundary, under the specification SpecFramed.                           *)
(***************************************************************************)
EXTENDS Integers, FiniteSets, Sequences

\* ---------------------------------------------------------------- bounds
\* Handle ids ever given out, wake_by_ref calls a target receives, and
\* wake_by_ref calls in progress on one handle.
MaxHandles == 3
MaxSignals == 2
MaxByRef == 1

\* Largest capacity or boundary given to a FramedWrite, and largest number
\* of bytes held in its write buffer.
MaxBoundary == 3
MaxBuf == 3

\* Two allocations, Arc<W1> and Arc<W2>, of two concrete Wake types.
Allocs == {1, 2}
Handles == 1..MaxHandles

VARIABLES
    strong,   \* strong[a]: the Arc strong counter of allocation a
    freed,    \* freed[a]: how many times allocation a was deallocated
    arc,      \* arc[a]: "held" while the caller owns the Arc<W>, then "moved"
    wakes,    \* wakes[a]: calls of Wake::wake received by the target in a
    signals,  \* signals[a]: calls of Wake::wake_by_ref received by the target
    handles,  \* handles[h]: the Waker / WakerRef with id h
    fw        \* the FramedWrite<T, E>: encoder and WriteFrame state

wakevars == <<strong, freed, arc, wakes, signals, handles>>

vars == <<strong, freed, arc, wakes, signals, handles, fw>>

\* ------------------------------------------------------------- Arc<T>
\* The concrete type W of the target stored in allocation a.
TypeOf(a) == a

\* fn waker_vtable<W>() -> &'static RawWakerVTable: one table per type.
waker_vtable(W) == W

\* An increment that is lost (the Arc rebuilt for the clone is dropped again).
IncrementLost(c) == c

\* Arc::increment_strong_count: an atomic fetch_add(1).
IncrementStrongCount(c) == c + 1

\* drop(Arc<T>): an atomic fetch_sub(1); the value after it.
DecrementStrongCount(c) == c - 1

\* The test made on the value after the decrement, where fetch_sub gives
\* the value before it.
WasLastTestsNewValue(old) == old = 0

\* The test off by one: the stake that leaves one other stake behind runs
\* the deallocation.
WasLastOffByOne(old) == old = 2

\* drop(Arc<T>): the stake whose fetch_sub read 1 runs the deallocation.
WasLast(old) == old = 1

\* Arc::into_raw / Arc::from_raw / Arc::as_ptr leave the counter alone.
IntoRaw(c) == c

\* ------------------------------------------------------------ handles
NoHandle ==
    [st |-> "unused", kind |-> "none", data |-> 0, vtable |-> 0,
     parent |-> 0, byref |-> 0]

\* RawWaker::new(data, vtable), wrapped in a Waker or in a WakerRef.
RawWaker(k, d, vt, p) ==
    [st |-> "live", kind |-> k, data |-> d, vtable |-> vt,
     parent |-> p, byref |-> 0]

Unused == {h \in Handles : handles[h].st = "unused"}

\* Handle ids are given out in order and never reused.
Fresh == CHOOSE h \in Unused : \A g \in Unused : h <= g

\* The WakerRef<'a> values still borrowing the caller's Arc of a.
Borrows(a) ==
    {h \in Handles : /\ handles[h].kind = "borrowed"
                     /\ handles[h].st = "live"
                     /\ handles[h].data = a}

\* -------------------------------------------------------- FramedWrite
\* The bytes a frame is made of, and the encoders there are.
Bytes == {0, 1}
Codecs == {"E", "C"}

\* No FramedWrite is built yet.  The field configured records the
\* capacity given to with_capacity, then the argument of the latest
\* set_backpressure_boundary.
NotBuilt ==
    [built |-> FALSE, codec |-> "E", buffer |-> <<>>,
     backpressure_boundary |-> 0, configured |-> 0]

Init ==
    /\ strong = [a \in Allocs |-> 1]
    /\ freed = [a \in Allocs |-> 0]
    /\ arc = [a \in Allocs |-> "held"]
    /\ wakes = [a \in Allocs |-> 0]
    /\ signals = [a \in Allocs |-> 0]
    /\ handles = [h \in Handles |-> NoHandle]
    /\ fw = NotBuilt

\* ------------------------------------------------------------ actions
\* A waker_ref that builds its Waker from a clone of the Arc (into_raw of
\* a clone instead of as_ptr).
WakerRefNewTakesStake(a) ==
    /\ arc[a] = "held"
    /\ Unused # {}
    /\ handles' = [handles EXCEPT
           ![Fresh] = RawWaker("borrowed", a, waker_vtable(TypeOf(a)), 0)]
    /\ strong' = [strong EXCEPT ![a] = IncrementStrongCount(@)]
    /\ UNCHANGED <<freed, arc, wakes, signals>>

\* A wake by value that is reachable through a WakerRef (the Waker inside
\* it can be moved out).
WakeArcRawOnAnyHandle(h) ==
    LET d == handles[h].data IN
    /\ handles[h].st = "live"
    /\ handles[h].byref = 0
    /\ strong' = [strong EXCEPT ![d] = @]
    /\ wakes' = [wakes EXCEPT ![d] = @ + 1]
    /\ handles' = [handles EXCEPT ![h].st = "inwake"]
    /\ UNCHANGED <<freed, arc, signals>>

\* waker_ref(&Arc<W>) -> WakerRef<'_>
WakerRefNew(a) ==
    /\ arc[a] = "held"
    /\ Unused # {}
    /\ handles' = [handles EXCEPT
           ![Fresh] = RawWaker("borrowed", a, waker_vtable(TypeOf(a)), 0)]
    /\ strong' = [strong EXCEPT ![a] = IntoRaw(@)]
    /\ UNCHANGED <<freed, arc, wakes, signals>>

\* A waker() that builds the handle from a clone of the Arc and forgets
\* the Arc it was given.
WakerNewFromClone(a) ==
    /\ arc[a] = "held"
    /\ Borrows(a) = {}
    /\ Unused # {}
    /\ arc' = [arc EXCEPT ![a] = "moved"]
    /\ strong' = [strong EXCEPT ![a] = IncrementStrongCount(@)]
    /\ handles' = [handles EXCEPT
           ![Fresh] = RawWaker("owning", a, waker_vtable(TypeOf(a)), 0)]
    /\ UNCHANGED <<freed, wakes, signals>>

\* waker(Arc<W>) -> Waker: the Arc is moved in, so no borrow of it is left.
WakerNew(a) ==
    /\ arc[a] = "held"
    /\ Borrows(a) = {}
    /\ Unused # {}
    /\ arc' = [arc EXCEPT ![a] = "moved"]
    /\ strong' = [strong EXCEPT ![a] = IntoRaw(@)]
    /\ handles' = [handles EXCEPT
           ![Fresh] = RawWaker("owning", a, waker_vtable(TypeOf(a)), 0)]
    /\ UNCHANGED <<freed, wakes, signals>>

\* A release that deallocates whatever the counter reads (the stake rebuilt
\* as a unique owner instead of an Arc).
ReleaseStakeAsUniqueOwner(h) ==
    LET d == handles[h].data IN
    /\ strong' = [strong EXCEPT ![d] = DecrementStrongCount(@)]
    /\ handles' = [handles EXCEPT ![h].st = "freeing"]

\* The release of one owned Arc<T> held in handle h (the end of a scope that
\* owns it): fetch_sub(1), and the deallocation is left to the stake that
\* read 1.
ReleaseStake(h) ==
    LET d == handles[h].data IN
    /\ strong' = [strong EXCEPT ![d] = DecrementStrongCount(@)]
    /\ handles' = [handles EXCEPT
           ![h].st = IF WasLast(strong[d]) THEN "freeing" ELSE "gone"]

\* A clone_arc_raw::<T> that pairs the pointer with the table of another
\* type than T.
CloneWithOtherTable(h) ==
    LET d == handles[h].data
        T == handles[h].vtable
        U == CHOOSE x \in Allocs : TypeOf(x) # T IN
    /\ handles[h].st = "live"
    /\ Unused # {}
    /\ strong' = [strong EXCEPT ![d] = IncrementStrongCount(@)]
    /\ handles' = [handles EXCEPT
           ![Fresh] = RawWaker("owning", d, waker_vtable(TypeOf(U)), h)]
    /\ UNCHANGED <<freed, arc, wakes, signals>>

\* A clone whose handle points to a copy of the target in an allocation of
\* its own instead of the allocation it was called on.
CloneOfTarget(h) ==
    LET d == handles[h].data
        T == handles[h].vtable
        o == CHOOSE x \in Allocs : x # d IN
    /\ handles[h].st = "live"
    /\ Unused # {}
    /\ strong' = [strong EXCEPT ![o] = IncrementStrongCount(@)]
    /\ handles' = [handles EXCEPT
           ![Fresh] = RawWaker("owning", o, waker_vtable(T), h)]
    /\ UNCHANGED <<freed, arc, wakes, signals>>

\* A clone that copies the handle it is called on as it is: the copy of a
\* WakerRef is another WakerRef, with no stake of its own.
CloneCopiesHandle(h) ==
    LET d == handles[h].data
        T == handles[h].vtable IN
    /\ handles[h].st = "live"
    /\ Unused # {}
    /\ strong' = [strong EXCEPT ![d] =
           IF handles[h].kind = "owning" THEN IncrementStrongCount(@) ELSE @]
    /\ handles' = [handles EXCEPT
           ![Fresh] = RawWaker(handles[h].kind, d, waker_vtable(T), h)]
    /\ UNCHANGED <<freed, arc, wakes, signals>>

\* unsafe fn clone_arc_raw<T>(data) -> RawWaker, reached by Waker::clone on
\* a Waker or, through Deref, on a WakerRef.
CloneArcRaw(h) ==
    LET d == handles[h].data
        T == handles[h].vtable IN
    /\ handles[h].st = "live"
    /\ Unused # {}
    /\ strong' = [strong EXCEPT ![d] = IncrementStrongCount(@)]
    /\ handles' = [handles EXCEPT
           ![Fresh] = RawWaker("owning", d, waker_vtable(T), h)]
    /\ UNCHANGED <<freed, arc, wakes, signals>>

\* A wake_arc_raw that keeps the rebuilt Arc inside ManuallyDrop, as
\* wake_by_ref_arc_raw does, and hands a clone of it to Wake::wake.
WakeArcRawHandsClone(h) ==
    LET d == handles[h].data IN
    /\ handles[h].st = "live"
    /\ handles[h].kind = "owning"
    /\ handles[h].byref = 0
    /\ strong' = [strong EXCEPT ![d] = IncrementStrongCount(@)]
    /\ wakes' = [wakes EXCEPT ![d] = @ + 1]
    /\ handles' = [handles EXCEPT ![h].st = "inwake"]
    /\ UNCHANGED <<freed, arc, signals>>

\* A wake_arc_raw that rebuilds the Arc from the pointer twice: one is
\* handed to Wake::wake and the other dropped at the end of the scope.
WakeArcRawRebuildsTwice(h) ==
    LET d == handles[h].data IN
    /\ handles[h].st = "live"
    /\ handles[h].kind = "owning"
    /\ handles[h].byref = 0
    /\ strong' = [strong EXCEPT ![d] = DecrementStrongCount(@)]
    /\ wakes' = [wakes EXCEPT ![d] = @ + 1]
    /\ handles' = [handles EXCEPT ![h].st = "inwake"]
    /\ UNCHANGED <<freed, arc, signals>>

\* unsafe fn wake_arc_raw<T>(data), reached by Waker::wake(self): the stake
\* is rebuilt with Arc::from_raw and handed to Wake::wake.
WakeArcRaw(h) ==
    LET d == handles[h].data IN
    /\ handles[h].st = "live"
    /\ handles[h].kind = "owning"
    /\ handles[h].byref = 0
    /\ strong' = [strong EXCEPT ![d] = IntoRaw(@)]
    /\ wakes' = [wakes EXCEPT ![d] = @ + 1]
    /\ handles' = [handles EXCEPT ![h].st = "inwake"]
    /\ UNCHANGED <<freed, arc, signals>>

\* Wake::wake(arc_self: Arc<Self>) took the Arc by value: the target lets go
\* of it.
WakeRelease(h) ==
    /\ handles[h].st = "inwake"
    /\ ReleaseStake(h)
    /\ UNCHANGED <<freed, arc, wakes, signals>>

\* A wake_by_ref_arc_raw that takes a stake of its own for the call (an
\* increment before the Arc is rebuilt) and keeps it inside ManuallyDrop.
WakeByRefArcRawTakesStake(h) ==
    LET d == handles[h].data IN
    /\ handles[h].st = "live"
    /\ handles[h].byref < MaxByRef
    /\ signals[d] < MaxSignals
    /\ signals' = [signals EXCEPT ![d] = @ + 1]
    /\ handles' = [handles EXCEPT ![h].byref = @ + 1]
    /\ strong' = [strong EXCEPT ![d] = IncrementStrongCount(@)]
    /\ UNCHANGED <<freed, arc, wakes>>

\* unsafe fn wake_by_ref_arc_raw<T>(data), reached by Waker::wake_by_ref on
\* a Waker or a WakerRef: the call of Wake::wake_by_ref(&arc).
WakeByRefArcRaw(h) ==
    LET d == handles[h].data IN
    /\ handles[h].st = "live"
    /\ handles[h].byref < MaxByRef
    /\ signals[d] < MaxSignals
    /\ signals' = [signals EXCEPT ![d] = @ + 1]
    /\ handles' = [handles EXCEPT ![h].byref = @ + 1]
    /\ strong' = [strong EXCEPT ![d] = IntoRaw(@)]
    /\ UNCHANGED <<freed, arc, wakes>>

\* The end of wake_by_ref_arc_raw with the Arc not inside ManuallyDrop: the
\* end of its scope drops the Arc.
WakeByRefReturnDropsArc(h) ==
    LET d == handles[h].data IN
    /\ handles[h].byref > 0
    /\ handles' = [handles EXCEPT ![h].byref = @ - 1]
    /\ strong' = [strong EXCEPT ![d] = DecrementStrongCount(@)]
    /\ freed' = [freed EXCEPT ![d] = IF WasLast(strong[d]) THEN @ + 1 ELSE @]
    /\ UNCHANGED <<arc, wakes, signals>>

\* The end of wake_by_ref_arc_raw: the Arc is inside ManuallyDrop, so the
\* end of its scope releases nothing.
WakeByRefReturn(h) ==
    /\ handles[h].byref > 0
    /\ handles' = [handles EXCEPT ![h].byref = @ - 1]
    /\ UNCHANGED <<strong, freed, arc, wakes, signals>>

\* A drop_arc_raw that forgets the rebuilt Arc instead of dropping it.
DropArcRawForgets(h) ==
    /\ handles[h].st = "live"
    /\ handles[h].kind = "owning"
    /\ handles[h].byref = 0
    /\ handles' = [handles EXCEPT ![h].st = "gone"]
    /\ UNCHANGED <<strong, freed, arc, wakes, signals>>

\* A drop_arc_raw that destroys what the pointer refers to without going
\* through the Arc's counter.
DropArcRawDestroysTarget(h) ==
    /\ handles[h].st = "live"
    /\ handles[h].kind = "owning"
    /\ handles[h].byref = 0
    /\ handles' = [handles EXCEPT ![h].st = "freeing"]
    /\ UNCHANGED <<strong, freed, arc, wakes, signals>>

\* unsafe fn drop_arc_raw<T>(data), reached by dropping a Waker.
DropArcRaw(h) ==
    /\ handles[h].st = "live"
    /\ handles[h].kind = "owning"
    /\ handles[h].byref = 0
    /\ ReleaseStake(h)
    /\ UNCHANGED <<freed, arc, wakes, signals>>

\* Dropping a WakerRef whose Waker is not inside ManuallyDrop: the Waker's
\* drop runs drop_arc_raw.
WakerRefDropRunsDrop(h) ==
    /\ handles[h].st = "live"
    /\ handles[h].kind = "borrowed"
    /\ handles[h].byref = 0
    /\ ReleaseStake(h)
    /\ UNCHANGED <<freed, arc, wakes, signals>>

\* Dropping a WakerRef: its Waker is inside ManuallyDrop, so drop_arc_raw
\* is not called.
WakerRefDrop(h) ==
    /\ handles[h].st = "live"
    /\ handles[h].kind = "borrowed"
    /\ handles[h].byref = 0
    /\ handles' = [handles EXCEPT ![h].st = "gone"]
    /\ UNCHANGED <<strong, freed, arc, wakes, signals>>

\* The deallocation run by the stake whose decrement read 1.
Deallocate(h) ==
    /\ handles[h].st = "freeing"
    /\ freed' = [freed EXCEPT ![handles[h].data] = @ + 1]
    /\ handles' = [handles EXCEPT ![h].st = "gone"]
    /\ UNCHANGED <<strong, arc, wakes, signals>>

Next ==
    \/ \E a \in Allocs : WakerRefNew(a) /\ UNCHANGED fw
    \/ \E a \in Allocs : WakerNew(a) /\ UNCHANGED fw
    \/ \E h \in Handles : CloneArcRaw(h) /\ UNCHANGED fw
    \/ \E h \in Handles : WakeArcRaw(h) /\ UNCHANGED fw
    \/ \E h \in Handles : WakeRelease(h) /\ UNCHANGED fw
    \/ \E h \in Handles : WakeByRefArcRaw(h) /\ UNCHANGED fw
    \/ \E h \in Handles : WakeByRefReturn(h) /\ UNCHANGED fw
    \/ \E h \in Handles : DropArcRaw(h) /\ UNCHANGED fw
    \/ \E h \in Handles : WakerRefDrop(h) /\ UNCHANGED fw
    \/ \E h \in Handles : Deallocate(h) /\ UNCHANGED fw

Spec == Init /\ [][Next]_vars

\* A thread that is inside the target's wake, or that has made the last
\* decrement, keeps running: the target's wake lets go of the Arc it took
\* and the pending deallocation is carried out.  Whether and when handles
\* are dropped or woken is left to their holders.
Fairness ==
    \A h \in Handles :
        /\ WF_vars(WakeRelease(h) /\ UNCHANGED fw)
        /\ WF_vars(Deallocate(h) /\ UNCHANGED fw)

SpecFair == Spec /\ Fairness

\* ------------------------------------------- FramedWrite operations
\* A set_backpressure_boundary that only ever raises the boundary.
SetBackpressureBoundaryRaises(boundary) ==
    /\ fw.built
    /\ fw' = [fw EXCEPT
           !.backpressure_boundary =
               IF boundary > @ THEN boundary ELSE @,
           !.configured = boundary]
    /\ UNCHANGED wakevars

\* FramedWrite::with_capacity(inner, encoder, capacity)
WithCapacity(encoder, capacity) ==
    /\ ~fw.built
    /\ fw' = [built |-> TRUE, codec |-> encoder, buffer |-> <<>>,
              backpressure_boundary |-> capacity, configured |-> capacity]
    /\ UNCHANGED wakevars

\* FramedWrite::backpressure_boundary(&self)
backpressure_boundary == fw.backpressure_boundary

\* FramedWrite::write_buffer(&self)
write_buffer == fw.buffer

\* FramedWrite::encoder(&self)
encoder == fw.codec

\* FramedWrite::set_backpressure_boundary(&mut self, boundary)
SetBackpressureBoundary(boundary) ==
    /\ fw.built
    /\ fw' = [fw EXCEPT !.backpressure_boundary = boundary,
                        !.configured = boundary]
    /\ UNCHANGED wakevars

\* FramedWrite::map_encoder(self, map): the encoder becomes map(codec),
\* inner and state are moved over.
MapEncoder(c) ==
    /\ fw.built
    /\ fw' = [fw EXCEPT !.codec = c]
    /\ UNCHANGED wakevars

\* FramedWrite::write_buffer_mut(&mut self): the caller puts a byte into
\* the buffer, or clears it.
WriteBufferMut(b) ==
    /\ fw.built
    /\ Len(fw.buffer) < MaxBuf
    /\ fw' = [fw EXCEPT !.buffer = Append(@, b)]
    /\ UNCHANGED wakevars

WriteBufferClear ==
    /\ fw.built
    /\ fw.buffer # <<>>
    /\ fw' = [fw EXCEPT !.buffer = <<>>]
    /\ UNCHANGED wakevars

\* Sink::start_send(item), deferred to FramedImpl: the encoder puts the
\* frame into the write buffer.
StartSend(item) ==
    /\ fw.built
    /\ Len(fw.buffer) < MaxBuf
    /\ fw' = [fw EXCEPT !.buffer = Append(@, item)]
    /\ UNCHANGED wakevars

\* Sink::poll_ready, deferred to FramedImpl: once the buffered bytes reach
\* the boundary the buffer is flushed to the I/O object.
PollReady ==
    /\ fw.built
    /\ Len(fw.buffer) >= fw.backpressure_boundary
    /\ fw.buffer # <<>>
    /\ fw' = [fw EXCEPT !.buffer = <<>>]
    /\ UNCHANGED wakevars

\* Sink::poll_flush, deferred to FramedImpl: the buffer is written out.
PollFlush ==
    /\ fw.built
    /\ fw.buffer # <<>>
    /\ fw' = [fw EXCEPT !.buffer = <<>>]
    /\ UNCHANGED wakevars

FramedNext ==
    \/ \E e \in Codecs : \E c \in 0..MaxBoundary : WithCapacity(e, c)
    \/ \E b \in 0..MaxBoundary : SetBackpressureBoundary(b)
    \/ \E c \in Codecs : MapEncoder(c)
    \/ \E b \in Bytes : WriteBufferMut(b)
    \/ WriteBufferClear
    \/ \E i \in Bytes : StartSend(i)
    \/ PollReady
    \/ PollFlush

SpecFramed == Init /\ [][FramedNext]_vars

\* ------------------------------------------------------- derived views
\* Every owning handle ever built on allocation a (Wakers, live or not).
Owning(a) ==
    {h \in Handles : handles[h].kind = "owning" /\ handles[h].data = a}

\* The owning handles of a that came out of clone.
Clones(a) == {h \in Owning(a) : handles[h].parent # 0}

\* Stakes ever created on a: the initial one and one per clone.
StakesCreated(a) == 1 + Cardinality(Clones(a))

\* Owning handles of a on which drop or the consuming wake was called.
Consumed(a) ==
    {h \in Owning(a) : handles[h].st \in {"inwake", "freeing", "gone"}}

\* Owning handles of a whose stake is not released yet.
Unreleased(a) == {h \in Owning(a) : handles[h].st \in {"live", "inwake"}}

\* Stakes of a whose decrement read 1 and whose deallocation is pending.
Freeing(a) == {h \in Owning(a) : handles[h].st = "freeing"}

\* ---------------------------------------------------------------- C1
\* C1: stake conservation.  An allocation is deallocated at most once, and
\* when it has been, the number of drop and consuming wake calls made on its
\* handles equals the number of stakes ever created on it (the initial
\* stake plus one per clone).
C1_StakeConservation ==
    \A a \in Allocs :
        /\ freed[a] <= 1
        /\ freed[a] >= 1 => Cardinality(Consumed(a)) = StakesCreated(a)

\* An allocation with clones, some stake woken by value and some dropped,
\* has been deallocated.
C1_Witness ==
    \E a \in Allocs :
        /\ freed[a] = 1
        /\ Cardinality(Clones(a)) >= 2
        /\ wakes[a] >= 1
        /\ wakes[a] < Cardinality(Consumed(a))

\* ---------------------------------------------------------------- C2
\* C2: under every interleaving of clone, wake and drop steps on handles of
\* one allocation, the allocation is never deallocated twice (counting a
\* deallocation that is pending) and is never deallocated, nor about to be,
\* while an owning handle that was not released still points to it.
C2_NoDoubleFreeNoDangling ==
    \A a \in Allocs :
        /\ freed[a] + Cardinality(Freeing(a)) <= 1
        /\ freed[a] + Cardinality(Freeing(a)) >= 1 => Unreleased(a) = {}

\* Two releases of the same allocation are in flight at once (one stake
\* inside the target's wake, one already decremented) and a third handle
\* is still live.
C2_Witness ==
    \E a \in Allocs : \E h, g, k \in Owning(a) :
        /\ handles[h].st = "inwake"
        /\ handles[g].st = "gone"
        /\ handles[k].st = "live"
        /\ strong[a] = 2

\* ---------------------------------------------------------------- C3
\* The borrowed handles (WakerRef) ever built on allocation a.
Borrowed(a) ==
    {h \in Handles : handles[h].kind = "borrowed" /\ handles[h].data = a}

\* A sole owning handle (no clone was ever taken): while it is live the
\* counter is 1 and nothing is deallocated, and once it is dropped and the
\* drop has finished there is exactly one deallocation, whatever the number
\* of wake_by_ref calls the target received.
C3_SoleHandle ==
    \A a \in Allocs : \A h \in Owning(a) :
        (arc[a] = "moved" /\ Clones(a) = {}) =>
            /\ handles[h].st = "live" => strong[a] = 1 /\ freed[a] = 0
            /\ handles[h].st = "gone" => strong[a] = 0 /\ freed[a] = 1

\* A step of wake_by_ref (its call of the target or its return) changes
\* neither a counter, nor what is deallocated, nor the caller's Arcs, nor
\* the state of any handle's stake.
C3_ByRefStep ==
    \A h \in Handles :
        handles'[h].byref # handles[h].byref =>
            /\ strong' = strong
            /\ freed' = freed
            /\ arc' = arc
            /\ \A g \in Handles : handles'[g].st = handles[g].st

\* C3: wake by reference is ownership-neutral.  No wake_by_ref step
\* changes the stake counter or deallocates, at any point of a handle's
\* life, and n wake_by_ref calls followed by the drop of a sole handle
\* give n signals and exactly one deallocation.
C3_WakeByRefNeutral == []C3_SoleHandle /\ [][C3_ByRefStep]_vars

\* A sole owning handle was signalled MaxSignals times by reference, then
\* dropped, and the allocation was deallocated once.
C3_Witness ==
    \E a \in Allocs :
        /\ arc[a] = "moved"
        /\ Clones(a) = {}
        /\ Borrowed(a) = {}
        /\ signals[a] = MaxSignals
        /\ wakes[a] = 0
        /\ freed[a] = 1

\* ---------------------------------------------------------------- C4
\* The part of the state that the lifecycle of the stakes is made of: the
\* counters, the deallocations, the caller's Arcs and the owning handles.
StakeView ==
    <<strong, freed, arc,
      [h \in Handles |->
          IF handles[h].kind = "owning" THEN handles[h] ELSE NoHandle]>>

\* This step builds or discards a borrowed handle.
BorrowStep ==
    \E h \in Handles :
        /\ handles'[h].kind = "borrowed"
        /\ handles'[h].st # handles[h].st

\* The counter of a live allocation counts the caller's Arc and the owning
\* handles not released yet, and no borrowed handle.
C4_CounterIgnoresBorrows ==
    \A a \in Allocs :
        strong[a] = (IF arc[a] = "held" THEN 1 ELSE 0)
                        + Cardinality(Unreleased(a))

\* C4: a borrowed handle does not alter the counter.  Building and
\* discarding a WakerRef, at any point of the lifecycle of the stakes,
\* leaves the counter, the deallocations and every owning handle as they
\* were, so the run seen through the stakes is the run without the
\* borrowed handles; the counter never counts a borrowed handle.
C4_BorrowedNeutral ==
    []C4_CounterIgnoresBorrows /\ [][BorrowStep => UNCHANGED StakeView]_vars

\* A borrowed handle was built and discarded while an owning clone taken
\* through it was live, and the allocation went through its whole
\* lifecycle to its deallocation.
C4_Witness ==
    \E a \in Allocs : \E b \in Borrowed(a) : \E h \in Owning(a) :
        /\ handles[b].st = "gone"
        /\ handles[h].parent = b
        /\ arc[a] = "moved"
        /\ freed[a] = 1

\* ---------------------------------------------------------------- C5
\* The holders of a stake of a: the caller's Arc and the owning handles
\* not released yet.
StakeHolders(a) ==
    (IF arc[a] = "held" THEN {0} ELSE {}) \cup Unreleased(a)

\* C5: waker(arc) moves the caller's stake into the handle it returns.  In
\* the step in which the caller's Arc of a is moved, the counter of a is
\* the same before and after, the Arc is no holder any more and exactly
\* one new owning handle, pointing to a with the table of a's type, has
\* taken its place.
C5_WakerTransfersStake ==
    [][\A a \in Allocs :
          (arc[a] = "held" /\ arc'[a] = "moved") =>
              /\ strong'[a] = strong[a]
              /\ \E h \in Unused :
                    /\ StakeHolders(a)' = (StakeHolders(a) \ {0}) \cup {h}
                    /\ handles'[h].kind = "owning"
                    /\ handles'[h].st = "live"
                    /\ handles'[h].data = a
                    /\ handles'[h].vtable = waker_vtable(TypeOf(a))
              /\ Cardinality(StakeHolders(a)') = strong'[a]]_vars

\* waker(arc) was called on an Arc whose counter was 2 (a clone taken
\* earlier through a borrowed handle is live): the counter is still 2.
C5_Witness ==
    \E a \in Allocs : \E h, g \in Owning(a) :
        /\ arc[a] = "moved"
        /\ handles[h].parent = 0
        /\ handles[h].st = "live"
        /\ handles[g].parent # 0
        /\ handles[g].st = "live"
        /\ g < h
        /\ strong[a] = 2

\* ---------------------------------------------------------------- C6
\* Handle g comes out of a clone called on handle h in this step.
ClonedFrom(g, h) ==
    /\ handles[g].st = "unused"
    /\ handles'[g].st # "unused"
    /\ handles'[g].parent = h

\* The stake of owning handle g is released in this step (the end of its
\* drop, or of the wake it was passed to).
Released(g) ==
    /\ handles[g].st \in {"live", "inwake"}
    /\ handles'[g].st \in {"freeing", "gone"}

\* C6: cloning a borrowed handle yields a new owning stake.  A clone
\* called through a WakerRef adds exactly one to the counter and returns
\* an owning handle on the same allocation, the WakerRef staying what it
\* was; the release of that handle takes exactly one from the counter; and
\* discarding the WakerRef leaves the counter alone.
C6_CloneOfBorrowedOwns ==
    [][\A h \in Handles : handles[h].kind = "borrowed" =>
          LET d == handles[h].data IN
          /\ \A g \in Handles :
                /\ ClonedFrom(g, h) =>
                      /\ strong'[d] = strong[d] + 1
                      /\ handles'[g].kind = "owning"
                      /\ handles'[g].st = "live"
                      /\ handles'[g].data = d
                      /\ handles'[h] = handles[h]
                /\ (handles[g].parent = h /\ Released(g)) =>
                      /\ handles[g].kind = "owning"
                      /\ strong'[d] = strong[d] - 1
          /\ handles'[h].st # handles[h].st =>
                strong' = strong /\ freed' = freed]_vars

\* A clone taken through a borrowed handle has been released and the
\* borrowed handle discarded, the caller's Arc still holding the
\* allocation.
C6_Witness ==
    \E a \in Allocs : \E b \in Borrowed(a) : \E g \in Owning(a) :
        /\ handles[g].parent = b
        /\ handles[g].st = "gone"
        /\ handles[b].st = "gone"
        /\ arc[a] = "held"
        /\ strong[a] = 1
        /\ freed[a] = 0

\* ---------------------------------------------------------------- C7
\* Handle h is passed to the consuming wake in this step.
WokenByValue(h) ==
    handles[h].st = "live" /\ handles'[h].st = "inwake"

\* The target's wake releases in this step the stake it was handed.
WakeReleased(h) ==
    handles[h].st = "inwake" /\ handles'[h].st # "inwake"

\* C7: wake by value consumes the stake of the handle.  The call invokes
\* the target's wake once and leaves the counter as it is (the stake is
\* handed over, not duplicated); the release of the stake handed to wake
\* takes exactly one from the counter, and deallocates if the counter was
\* 1; a handle that was woken by value and released never changes again.
C7_WakeConsumesStake ==
    [][\A h \in Handles :
          LET d == handles[h].data IN
          /\ WokenByValue(h) =>
                /\ wakes'[d] = wakes[d] + 1
                /\ strong' = strong
                /\ freed' = freed
          /\ WakeReleased(h) =>
                /\ strong'[d] = strong[d] - 1
                /\ wakes' = wakes
                /\ handles'[h].st = IF strong[d] = 1 THEN "freeing" ELSE "gone"
          /\ handles[h].st = "gone" => handles'[h] = handles[h]]_vars

\* Two handles of an allocation were woken by value: the stake of one was
\* released while the other was live, the last one deallocated.
C7_Witness ==
    \E a \in Allocs :
        /\ wakes[a] = 2
        /\ Cardinality(Consumed(a)) = 2
        /\ StakesCreated(a) = 2
        /\ freed[a] = 1

\* ---------------------------------------------------------------- C8
\* The handle built by waker or waker_ref that h descends from by clone.
RECURSIVE Root(_)
Root(h) == IF handles[h].parent = 0 THEN h ELSE Root(handles[h].parent)

\* Handle h is signalled by reference in this step.
SignalledByRef(h) == handles'[h].byref > handles[h].byref

\* Every handle points to the allocation, and carries the table, of the
\* handle it descends from.
C8_SameTarget ==
    \A h \in Handles \ Unused :
        /\ handles[h].data = handles[Root(h)].data
        /\ handles[h].vtable = handles[Root(h)].vtable

\* A wake on h, by value or by reference, is counted by the target of the
\* handle h descends from, once, and by no other target.
C8_WakeReachesRoot ==
    \A h \in Handles \ Unused :
        LET t == handles[Root(h)].data IN
        /\ WokenByValue(h) =>
              wakes' = [wakes EXCEPT ![t] = @ + 1] /\ signals' = signals
        /\ SignalledByRef(h) =>
              signals' = [signals EXCEPT ![t] = @ + 1] /\ wakes' = wakes

\* C8: identity is preserved under clone.  A handle obtained by cloning,
\* directly or through other clones, points to the same allocation as the
\* original, and each wake on it, by value or by reference, adds one to the
\* invocation count of that same target.
C8_IdentityUnderClone == []C8_SameTarget /\ [][C8_WakeReachesRoot]_vars

\* A clone of a clone is inside the target's wake, and the target has
\* counted wakes made through more than one handle of the family.
C8_Witness ==
    \E a \in Allocs : \E h \in Owning(a) :
        /\ handles[h].parent # 0
        /\ handles[handles[h].parent].parent # 0
        /\ handles[h].st = "inwake"
        /\ wakes[a] = 2
        /\ signals[a] >= 1

\* ---------------------------------------------------------------- C9
\* Only the consuming wake was called on the handles of a so far, no drop.
OnlyWoken(a) == wakes[a] = Cardinality(Consumed(a))

\* C9: with n + 1 stakes on an allocation and wake by value called on its
\* handles only, the target's wake is invoked once per handle, the
\* allocation is not deallocated (nor about to be) before the call on the
\* last of the n + 1 handles, and once all n + 1 calls were made and the
\* target released the stakes, it is (being) deallocated, once.
C9_AllWokenThenFreed ==
    \A a \in Allocs : OnlyWoken(a) =>
        /\ wakes[a] <= StakesCreated(a)
        /\ wakes[a] < StakesCreated(a) =>
              freed[a] = 0 /\ Freeing(a) = {}
        /\ (wakes[a] = StakesCreated(a) /\ Unreleased(a) = {}) =>
              freed[a] + Cardinality(Freeing(a)) = 1

\* A handle cloned twice, all three handles woken by value: three
\* invocations and the allocation deallocated.
C9_Witness ==
    \E a \in Allocs :
        /\ arc[a] = "moved"
        /\ Borrowed(a) = {}
        /\ StakesCreated(a) = 3
        /\ wakes[a] = 3
        /\ freed[a] = 1

\* --------------------------------------------------------------- C10
\* The counter and the deallocation agree: a counter of at least 1 means
\* no deallocation, done or pending; a counter of 0 means the one
\* deallocation, done or pending in the stake that took the counter from 1
\* to 0; and a handle in use (live, inside wake, or inside wake_by_ref)
\* points to an allocation with a counter of at least 1.
C10_CounterAndFree ==
    /\ \A a \in Allocs :
          /\ strong[a] >= 0
          /\ strong[a] >= 1 => freed[a] = 0 /\ Freeing(a) = {}
          /\ strong[a] = 0 => freed[a] + Cardinality(Freeing(a)) = 1
    /\ \A h \in Handles :
          (handles[h].st \in {"live", "inwake"} \/ handles[h].byref > 0) =>
              strong[handles[h].data] >= 1 /\ freed[handles[h].data] = 0

\* The counter reaches 0 only from 1 and stays there; the release that
\* takes it from 1 to 0 is the one that deallocates; and a deallocation
\* happens only after that transition, by the stake that made it.
C10_Transition ==
    \A a \in Allocs :
        /\ strong'[a] = 0 => strong[a] \in {0, 1}
        /\ strong[a] = 0 => strong'[a] = 0
        /\ (strong[a] = 1 /\ strong'[a] = 0) =>
              \E h \in Owning(a) : Released(h) /\ handles'[h].st = "freeing"
        /\ freed'[a] # freed[a] =>
              /\ strong[a] = 0
              /\ freed'[a] = freed[a] + 1
              /\ \E h \in Freeing(a) : handles'[h].st = "gone"

\* C10: the allocation is deallocated if and only if the counter went from
\* 1 to 0 (the deallocation being the next step of the stake that made the
\* transition), and while the counter is at least 1 the allocation is
\* valid: with some stakes released and one left, the target can still be
\* signalled by reference, and the release of the last stake deallocates.
C10_FreedIffOneToZero == []C10_CounterAndFree /\ [][C10_Transition]_vars

\* Two stakes, one dropped: the target is being signalled by reference
\* through the remaining one, the counter at 1.
C10_Witness ==
    \E a \in Allocs : \E h, g \in Owning(a) :
        /\ StakesCreated(a) = 2
        /\ arc[a] = "moved"
        /\ handles[h].st = "gone"
        /\ wakes[a] = 0
        /\ handles[g].byref > 0
        /\ strong[a] = 1
        /\ freed[a] = 0

\* --------------------------------------------------------------- C11
\* While a stake is inside the target's wake, its allocation has a counter
\* of at least 1 and no deallocation, done or pending.
C11_ValidDuringWake ==
    \A a \in Allocs : \A h \in Owning(a) :
        handles[h].st = "inwake" =>
            strong[a] >= 1 /\ freed[a] = 0 /\ Freeing(a) = {}

\* The release of another stake g of a, while stake h of a is inside the
\* target's wake, takes one from the counter and deallocates nothing; and
\* of any releases of stakes of a, the one whose decrement takes the
\* counter from 1 to 0, and only that one, goes on to deallocate.
C11_ReleaseDuringWake ==
    \A a \in Allocs : \A g \in Owning(a) :
        Released(g) =>
            /\ strong'[a] = strong[a] - 1
            /\ freed' = freed
            /\ handles'[g].st = "freeing" <=> strong[a] = 1
            /\ \A h \in Owning(a) \ {g} :
                  handles[h].st = "inwake" =>
                      /\ handles'[g].st = "gone"
                      /\ handles'[h] = handles[h]
                      /\ strong'[a] >= 1

\* C11: the last other stake dropped while a wake by value runs on a
\* different stake.  The target stays valid for the whole of the wake
\* call, and the allocation is deallocated once, by the operation whose
\* decrement takes the counter from 1 to 0.
C11_DropDuringWake ==
    /\ []C11_ValidDuringWake
    /\ []C2_NoDoubleFreeNoDangling
    /\ [][C11_ReleaseDuringWake]_vars

\* Two stakes: one is inside the target's wake and the other was dropped
\* meanwhile, the counter at 1.
C11_Witness ==
    \E a \in Allocs : \E h, g \in Owning(a) :
        /\ StakesCreated(a) = 2
        /\ arc[a] = "moved"
        /\ handles[h].st = "inwake"
        /\ handles[g].st = "gone"
        /\ wakes[a] = 1
        /\ strong[a] = 1

\* --------------------------------------------------------------- C12
\* With no stake of a released or handed to wake yet, the counter is the
\* initial 1 plus the number of clones taken, whatever wake_by_ref calls
\* were made or are in progress.
C12_CounterIsClones ==
    \A a \in Allocs :
        Consumed(a) = {} => strong[a] = 1 + Cardinality(Clones(a))

\* A clone adds exactly one to the counter of its allocation, also while
\* wake_by_ref calls are in progress on it, and a wake_by_ref step (call
\* or return) leaves every counter as it is.
C12_CloneAndByRefSteps ==
    \A h \in Handles :
        /\ \A g \in Handles : ClonedFrom(g, h) =>
              strong' = [strong EXCEPT ![handles[h].data] = @ + 1]
        /\ handles'[h].byref # handles[h].byref => strong' = strong

\* C12: wake_by_ref and clone called at the same time on one allocation
\* do not race on the counter.  After any interleaving of k clones with
\* wake_by_ref calls, and no release, the counter has grown by exactly k.
C12_NoLostIncrement ==
    []C12_CounterIsClones /\ [][C12_CloneAndByRefSteps]_vars

\* Two clones were taken from a handle on which a wake_by_ref call is in
\* progress, nothing was released: the counter is 3.
C12_Witness ==
    \E a \in Allocs : \E h \in Handles :
        /\ handles[h].data = a
        /\ handles[h].byref > 0
        /\ Cardinality({g \in Clones(a) : handles[g].parent = h}) = 2
        /\ Consumed(a) = {}
        /\ signals[a] = 2
        /\ strong[a] = 3

\* --------------------------------------------------------------- C13
\* Owning handles of a whose stake was released.
ReleasedStakes(a) ==
    {h \in Owning(a) : handles[h].st \in {"freeing", "gone"}}

\* The counter is never negative, and the decrements made on it (the
\* stakes created minus the counter) are as many as the handles released:
\* never more than the stakes created.
C13_ReleasesWithinStakes ==
    \A a \in Allocs :
        /\ strong[a] >= 0
        /\ StakesCreated(a) - strong[a] = Cardinality(ReleasedStakes(a))
        /\ StakesCreated(a) - strong[a] <= StakesCreated(a)

\* A handle that was woken by value or dropped is never live again, a
\* handle whose stake is released never changes again but for the pending
\* deallocation, and every decrement of a counter is by one and is the
\* release of exactly one stake that was not released before.
C13_ConsumedOnce ==
    /\ \A h \in Handles :
          /\ handles[h].st = "inwake" =>
                handles'[h].st \in {"inwake", "freeing", "gone"}
          /\ handles[h].st = "freeing" =>
                handles'[h].st \in {"freeing", "gone"}
          /\ handles[h].st = "gone" => handles'[h] = handles[h]
    /\ \A a \in Allocs :
          strong'[a] < strong[a] =>
              /\ strong'[a] = strong[a] - 1
              /\ Cardinality({h \in Owning(a) : Released(h)}) = 1

\* C13: double release is unreachable through the handles.  In any
\* sequence of waker, waker_ref, clone, wake_by_ref, wake and drop, each
\* stake is consumed once, so the releases never exceed the stakes created
\* and the counter never goes below zero.
C13_NoDoubleRelease ==
    []C13_ReleasesWithinStakes /\ [][C13_ConsumedOnce]_vars

\* All six operations were used on one allocation and both of its stakes
\* are consumed, one by wake and one by drop: the counter is back at 0.
C13_Witness ==
    \E a \in Allocs :
        /\ Borrowed(a) # {}
        /\ arc[a] = "moved"
        /\ StakesCreated(a) = 2
        /\ Cardinality(ReleasedStakes(a)) = 2
        /\ wakes[a] = 1
        /\ signals[a] >= 1
        /\ strong[a] = 0
        /\ freed[a] = 1

\* --------------------------------------------------------------- C14
\* Every handle built carries the table of the type of the allocation its
\* pointer refers to.
C14_TableOfType ==
    \A h \in Handles \ Unused :
        /\ handles[h].data \in Allocs
        /\ handles[h].vtable = waker_vtable(TypeOf(handles[h].data))

\* A handle keeps its pointer and its table for its whole life, and a
\* handle built in this step by clone carries the table of the handle it
\* was cloned from.
C14_TableKept ==
    \A h \in Handles :
        /\ handles[h].st # "unused" =>
              /\ handles'[h].vtable = handles[h].vtable
              /\ handles'[h].data = handles[h].data
        /\ \A g \in Handles : ClonedFrom(g, h) =>
              handles'[g].vtable = handles[h].vtable

\* C14: every handle built on an allocation of type T, by waker, by
\* waker_ref or by clone of either, carries the operation table of T and
\* keeps it for its whole life, so its operations are those specialised
\* for the type of the allocation its pointer refers to.
C14_OneTablePerType == []C14_TableOfType /\ [][C14_TableKept]_vars

\* Handles of both types: a borrowed handle and a clone of it on one
\* allocation, and on the other a handle from waker that lived its whole
\* life.
C14_Witness ==
    \E b, g, k \in Handles :
        /\ handles[b].kind = "borrowed"
        /\ handles[g].parent = b
        /\ handles[g].kind = "owning"
        /\ handles[k].kind = "owning"
        /\ handles[k].parent = 0
        /\ handles[k].st = "gone"
        /\ handles[k].vtable # handles[g].vtable

\* --------------------------------------------------------------- C16
\* The caller's Arc of a, if the caller still holds it.
CallerArcs(a) == IF arc[a] = "held" THEN 1 ELSE 0

\* Owning handles of a neither dropped nor woken by value.
LiveOwning(a) == {h \in Owning(a) : handles[h].st = "live"}

\* Stakes of a handed to the target's wake and not released yet.
InWake(a) == {h \in Owning(a) : handles[h].st = "inwake"}

\* C16: the counting invariant.  While an allocation is not deallocated,
\* its counter is the number of the caller's Arcs, plus the owning handles
\* neither dropped nor woken by value, plus the stakes handed to wake and
\* not released yet; borrowed handles and wake_by_ref calls in progress
\* count for nothing.
C16_CountingInvariant ==
    \A a \in Allocs :
        freed[a] = 0 =>
            strong[a] = CallerArcs(a) + Cardinality(LiveOwning(a))
                            + Cardinality(InWake(a))

\* The caller's Arc, a live clone and a clone inside wake make a counter
\* of 3, while a live borrowed handle with a wake_by_ref call in progress
\* adds nothing.
C16_Witness ==
    \E a \in Allocs : \E b \in Borrows(a) :
        /\ handles[b].byref > 0
        /\ Cardinality(LiveOwning(a)) = 1
        /\ Cardinality(InWake(a)) = 1
        /\ arc[a] = "held"
        /\ strong[a] = 3

\* --------------------------------------------------------------- C18
\* A borrowed handle is only ever live or discarded, and while it is live
\* the Arc it was built from is held by the caller and the allocation has
\* a counter of at least 1 and is not deallocated.
C18_BorrowedState ==
    \A h \in Handles : handles[h].kind = "borrowed" =>
        LET a == handles[h].data IN
        /\ handles[h].st \in {"live", "gone"}
        /\ handles[h].parent = 0
        /\ handles[h].st = "live" =>
              arc[a] = "held" /\ strong[a] >= 1 /\ freed[a] = 0

\* A step on a borrowed handle (a wake_by_ref call or return, a clone
\* through it, its creation or its discard) never lowers a counter and
\* never deallocates; the only steps there are on it are these.
C18_BorrowedStep ==
    \A h \in Handles :
        (handles'[h].kind = "borrowed"
            /\ (handles'[h] # handles[h]
                   \/ \E g \in Handles : ClonedFrom(g, h))) =>
            /\ \A a \in Allocs : strong'[a] >= strong[a]
            /\ freed' = freed
            /\ wakes' = wakes
            /\ \A g \in Handles :
                  handles[g].kind = "owning" => ~Released(g)

\* C18: a borrowed handle can never release a stake.  Only wake_by_ref
\* and clone are reachable through a WakerRef (never the consuming wake
\* nor the drop of its Waker), so no step on a borrowed handle lowers the
\* counter or deallocates while the Arc it was built from is alive.
C18_BorrowedNeverReleases ==
    []C18_BorrowedState /\ [][C18_BorrowedStep]_vars

\* A borrowed handle was discarded and another is live with a wake_by_ref
\* call in progress and a clone taken through it, the Arc still held.
C18_Witness ==
    \E a \in Allocs : \E b, c \in Borrowed(a) : \E g \in Owning(a) :
        /\ handles[b].st = "gone"
        /\ handles[c].st = "live"
        /\ handles[c].byref > 0
        /\ handles[g].parent = c
        /\ arc[a] = "held"
        /\ strong[a] = 2

\* --------------------------------------------------------------- C17
\* Every owning stake ever created on a was dropped or woken by value:
\* the caller's Arc went into a handle and no owning handle is live.
AllConsumed(a) ==
    /\ arc[a] = "moved"
    /\ \A h \in Owning(a) : handles[h].st \in {"inwake", "freeing", "gone"}

\* C17: no leak.  Once every owning stake ever created on an allocation
\* (the initial one and every clone, also those taken through borrowed
\* handles) was dropped or woken by value, and with a target whose wake
\* releases the stake it receives, the allocation is eventually
\* deallocated, whatever wake_by_ref calls and borrowed handles there
\* were.
C17_NoLeak ==
    \A a \in Allocs : AllConsumed(a) ~> (freed[a] = 1)

\* An allocation with a clone taken through a borrowed handle and
\* signalled by reference was deallocated after all its stakes were
\* consumed, by wake and by drop.
C17_Witness ==
    \E a \in Allocs : \E b \in Borrowed(a) : \E g \in Owning(a) :
        /\ handles[g].parent = b
        /\ AllConsumed(a)
        /\ signals[a] >= 1
        /\ wakes[a] = 1
        /\ freed[a] = 1

\* --------------------------------------------------------------- C15
\* backpressure_boundary() returns the capacity given to with_capacity
\* or, if set_backpressure_boundary was called, its latest argument.
C15_BoundaryIsConfigured ==
    fw.built => backpressure_boundary = fw.configured

\* set_backpressure_boundary changes the boundary to its argument and
\* leaves the write buffer and the encoder alone; map_encoder changes the
\* encoder to the mapped one and leaves the write buffer and the boundary
\* alone.
C15_SetAndMapSteps ==
    /\ \A b \in 0..MaxBoundary : SetBackpressureBoundary(b) =>
          /\ backpressure_boundary' = b
          /\ write_buffer' = write_buffer
          /\ encoder' = encoder
    /\ \A c \in Codecs : MapEncoder(c) =>
          /\ encoder' = c
          /\ write_buffer' = write_buffer
          /\ backpressure_boundary' = backpressure_boundary

\* C15: the backpressure threshold is a plain register.  It reads as the
\* capacity given to with_capacity or the latest argument of
\* set_backpressure_boundary, and neither set_backpressure_boundary nor
\* map_encoder changes the write buffer (map_encoder keeps the boundary
\* too).
C15_BoundaryRegister ==
    []C15_BoundaryIsConfigured /\ [][C15_SetAndMapSteps]_vars

\* A FramedWrite with bytes in its buffer whose boundary was set below the
\* buffered length and whose encoder was mapped.
C15_Witness ==
    /\ fw.built
    /\ Len(write_buffer) = 2
    /\ backpressure_boundary = 1
    /\ encoder = "C"
====
